---- MODULE Spec2Model ----
(***************************************************************************)
(* Model of the streaming core of AI_DJ_app:                               *)
(*   - LiveMusicHelper (src/utils/LiveMusicHelper.ts, lines 1-297): the    *)
(*     connection manager and playback scheduler;                          *)
(*   - PromptDjMidi (src/components/PromptDjMidi.ts): the Auto DJ loop.    *)
(* Every handler of the code is one action.  An async function is cut at   *)
(* each await: the part before the await and each continuation are one     *)
(* action each, and the position of every suspended call is state.         *)
(* The Prompt objects are shared by reference between the component's map  *)
(* and the helper's map (new Map(this.prompts) copies the map, not the     *)
(* objects), so there is one weight per prompt id.                         *)
(***************************************************************************)
EXTENDS Integers, Sequences, FiniteSets, TLC

(***************************************************************************)
(* Bounds of the model.                                                    *)
(***************************************************************************)
MaxTime == 4          \* the clock runs over 0..MaxTime
MaxSessions == 2      \* sessions that may exist (not yet closed) at once
NumPrompts == 3       \* prompts of the catalogue
MaxPending == 1       \* suspended decodes / update promises / planning requests
MaxTimers == 2        \* pending reconnect timers
MaxTouched == 2       \* prompts 1..MaxTouched are clicked / filtered in the prompt-path specification

(***************************************************************************)
(* Program constants.                                                      *)
(***************************************************************************)
maxRetries == 5
retryDelay == 1000
bufferTime == 2
FullVolume == 10      \* the level 1 of setVolume; levels are counted in tenths

PromptIds == 1..NumPrompts
Text(p) == p                       \* the genre label of prompt p (labels are unique)
Texts == {Text(p) : p \in PromptIds}
Sids == 1..MaxSessions
Touched == 1..MaxTouched
Levels == {-1, 0, FullVolume, FullVolume + 1}    \* arguments of setVolume
NoLevel == FullVolume + 2          \* history: no setVolume call
Durations == {1, 2}                \* audioBuffer.duration of a decoded chunk
MaxStart == MaxTime + bufferTime + 2
ChunkLists == {<<d>> : d \in Durations} \cup {<<d, e>> : d \in Durations, e \in {1}}

NoChunk == [kind |-> "none", start |-> -1, dur |-> 0, n |-> 0]
FreeSession == [status |-> "free", pc |-> "none", played |-> FALSE, init |-> {}]

VARIABLES
  session,          \* LiveMusicHelper.session: 0 is null, else a session id
  retryCount,       \* LiveMusicHelper.retryCount
  filteredPrompts,  \* LiveMusicHelper.filteredPrompts: set of texts
  nextStartTime,    \* LiveMusicHelper.nextStartTime
  playbackState,    \* LiveMusicHelper._playbackState
  prompts,          \* weight of each (shared) Prompt object
  volume,           \* LiveMusicHelper.volume
  gain,             \* the target of outputNode.gain
  volArg,           \* history: the level setVolume was called with in the last step
  sess,             \* the remote sessions created by connect(), and the play() suspended on each
  decodeQ,          \* processAudioChunks calls suspended in await decodeAudioData (durations)
  bufTimers,        \* pending buffer-fill timers of processAudioChunks (their due times)
  reconnTimers,     \* pending reconnect timers armed by onclose
  updPending,       \* session.setWeightedPrompts promises awaited by the throttled body
  throttled,        \* a setWeightedPrompts call held back by throttle
  now,              \* audioContext.currentTime / the timer clock
  events,           \* history: events dispatched by the last step
  sent,             \* history: payloads given to session.setWeightedPrompts by the last step
  chunkLog,         \* history: what the last step did with a decoded chunk, or the number
                    \*          of chunks of the message it received
  lastSched,        \* history: start + duration of the chunk started last since the cursor
                    \*          was last reset (-1: none)
  epFirst,          \* history: when the first chunk of the current loading episode was started
  afterUnderrun,    \* history: an underrun reset the cursor and no chunk was started and the
                    \*          playback state was not set since
  ran,              \* history: the handlers of interest the last step ran
  closeRun,         \* history: closures while playing/loading since the last setupComplete,
                    \*          user-initiated play or terminal closure
  isAutoDjActive,          \* PromptDjMidi.isAutoDjActive
  isAutoDjLoading,         \* PromptDjMidi.isAutoDjLoading
  rateLimitCooldownActive, \* PromptDjMidi.rateLimitCooldownActive
  autoDjPlaylist,          \* PromptDjMidi.autoDjPlaylist
  autoDjCurrentIndex,      \* PromptDjMidi.autoDjCurrentIndex
  currentModel,            \* PromptDjMidi.currentModel
  autoDjIntervalId,        \* PromptDjMidi.autoDjIntervalId: TRUE while the cadence interval is armed
  rateLimitTimeoutId,      \* PromptDjMidi.rateLimitTimeoutId: TRUE while the cooldown timer is pending
  djFiltered,              \* PromptDjMidi.filteredPrompts
  djPlaybackState,         \* PromptDjMidi.playbackState (property)
  djChanged,               \* a Lit update with 'playbackState' among the changed properties is pending
  fetches,                 \* generateContent requests in flight (the model each was issued with)
  attempted                \* history: models requests were issued with since startAutoDj
                           \*          or the last planning success

hvars == <<session, retryCount, filteredPrompts, nextStartTime, playbackState, prompts,
           volume, gain, volArg,
           sess, decodeQ, bufTimers, reconnTimers, updPending, throttled, now,
           events, sent, chunkLog, lastSched, epFirst, afterUnderrun, ran, closeRun>>

djvars == <<isAutoDjActive, isAutoDjLoading, rateLimitCooldownActive, autoDjPlaylist,
            autoDjCurrentIndex, currentModel, autoDjIntervalId, rateLimitTimeoutId,
            djFiltered, djPlaybackState, djChanged, fetches, attempted>>

vars == <<hvars, djvars>>

(***************************************************************************)
(* The state as one record, so that a handler is a function of the state   *)
(* and handlers compose the way the calls nest in the code.                *)
(***************************************************************************)
W == [session |-> session, retryCount |-> retryCount, filteredPrompts |-> filteredPrompts,
      nextStartTime |-> nextStartTime, playbackState |-> playbackState, prompts |-> prompts,
      volume |-> volume, gain |-> gain, volArg |-> NoLevel,
      sess |-> sess, decodeQ |-> decodeQ, bufTimers |-> bufTimers,
      reconnTimers |-> reconnTimers, updPending |-> updPending, throttled |-> throttled,
      now |-> now, events |-> <<>>, sent |-> <<>>, chunkLog |-> NoChunk,
      lastSched |-> lastSched, epFirst |-> epFirst, afterUnderrun |-> afterUnderrun,
      ran |-> {}, closeRun |-> closeRun,
      isAutoDjActive |-> isAutoDjActive, isAutoDjLoading |-> isAutoDjLoading,
      rateLimitCooldownActive |-> rateLimitCooldownActive,
      autoDjPlaylist |-> autoDjPlaylist, autoDjCurrentIndex |-> autoDjCurrentIndex,
      currentModel |-> currentModel, autoDjIntervalId |-> autoDjIntervalId,
      rateLimitTimeoutId |-> rateLimitTimeoutId, djFiltered |-> djFiltered,
      djPlaybackState |-> djPlaybackState, djChanged |-> djChanged,
      fetches |-> fetches, attempted |-> attempted,
      overflow |-> FALSE]    \* set when a handler would need a session slot beyond MaxSessions

Commit(w) ==
  /\ session' = w.session
  /\ retryCount' = w.retryCount
  /\ filteredPrompts' = w.filteredPrompts
  /\ nextStartTime' = w.nextStartTime
  /\ playbackState' = w.playbackState
  /\ prompts' = w.prompts
  /\ volume' = w.volume
  /\ gain' = w.gain
  /\ volArg' = w.volArg
  /\ sess' = w.sess
  /\ decodeQ' = w.decodeQ
  /\ bufTimers' = w.bufTimers
  /\ reconnTimers' = w.reconnTimers
  /\ updPending' = w.updPending
  /\ throttled' = w.throttled
  /\ now' = w.now
  /\ events' = w.events
  /\ sent' = w.sent
  /\ chunkLog' = w.chunkLog
  /\ lastSched' = w.lastSched
  /\ epFirst' = w.epFirst
  /\ afterUnderrun' = w.afterUnderrun
  /\ ran' = w.ran
  /\ closeRun' = w.closeRun
  /\ isAutoDjActive' = w.isAutoDjActive
  /\ isAutoDjLoading' = w.isAutoDjLoading
  /\ rateLimitCooldownActive' = w.rateLimitCooldownActive
  /\ autoDjPlaylist' = w.autoDjPlaylist
  /\ autoDjCurrentIndex' = w.autoDjCurrentIndex
  /\ currentModel' = w.currentModel
  /\ autoDjIntervalId' = w.autoDjIntervalId
  /\ rateLimitTimeoutId' = w.rateLimitTimeoutId
  /\ djFiltered' = w.djFiltered
  /\ djPlaybackState' = w.djPlaybackState
  /\ djChanged' = w.djChanged
  /\ fetches' = w.fetches
  /\ attempted' = w.attempted

\* this.dispatchEvent(new CustomEvent(type, {detail})) of the helper
dispatchEvent(w, type, detail) == [w EXCEPT !.events = Append(@, <<"lmh", type, detail>>)]

\* history: handler h ran in this step
mark(w, h) == [w EXCEPT !.ran = @ \cup {h}]

\* this.dispatchEvent(new CustomEvent(type, {detail})) of the component
djDispatchEvent(w, type, detail) == [w EXCEPT !.events = Append(@, <<"pdj", type, detail>>)]

(***************************************************************************)
(* LiveMusicHelper: helpers.                                               *)
(***************************************************************************)
\* activePrompts getter: the prompts that are not filtered and have a non-zero weight.
activePrompts(w) ==
  {p \in PromptIds : Text(p) \notin w.filteredPrompts /\ w.prompts[p] # 0}

\* activePrompts.map(({text, weight}) => ({text, weight}))
weightedPrompts(w) == {<<Text(p), w.prompts[p]>> : p \in activePrompts(w)}

\* the 'playback-state-changed' listener of main(): pdjMidi.playbackState = detail,
\* which requests a Lit update when the value differs
onPlaybackStateChanged(w, state) ==
  [w EXCEPT !.djPlaybackState = state,
            !.djChanged = @ \/ (state # w.djPlaybackState)]

\* setPlaybackState(state).  epFirst (history) starts a new loading episode.
setPlaybackState(w, state) ==
  onPlaybackStateChanged(
    dispatchEvent([w EXCEPT !.playbackState = state,
                            !.afterUnderrun = FALSE,
                            !.epFirst = IF state = "loading" /\ w.playbackState # "loading"
                                        THEN -1 ELSE @],
                  "playback-state-changed", state),
    state)

\* this.nextStartTime = 0 (with the history variables that follow the cursor)
resetCursor(w) == [w EXCEPT !.nextStartTime = 0, !.lastSched = -1, !.epFirst = -1]

\* session.stop(): the STOP command; the object is dropped by the caller, the socket is not closed
sessionStop(w, s) ==
  IF w.sess[s].status = "open" THEN [w EXCEPT !.sess[s].status = "stopped"] ELSE w

\* session.play(): the service starts streaming chunks on s
sessionPlay(w, s) == [w EXCEPT !.sess[s].played = TRUE]

\* pause()
pause(w) ==
  LET w1 == setPlaybackState(w, "paused")   \* session.pause() changes nothing the model keeps
  IN  resetCursor([w1 EXCEPT !.gain = 0])

\* stop()
stop(w) ==
  LET w1 == IF w.session # 0 THEN sessionStop(w, w.session) ELSE w
      w2 == setPlaybackState(w1, "stopped")
  IN  [resetCursor(w2) EXCEPT !.gain = 0, !.session = 0]

IsFree(w, s) == w.sess[s].status = "free" /\ w.sess[s].pc = "none"
CanConnect(w) == \E s \in Sids : IsFree(w, s)
NewSid(w) == CHOOSE s \in Sids : IsFree(w, s) /\ \A t \in Sids : IsFree(w, t) => s <= t

\* connect(): issues the handshake; the caller is suspended on it
connect(w, init) ==
  IF CanConnect(w)
  THEN [w EXCEPT !.sess[NewSid(w)] =
          [status |-> "connecting", pc |-> "connect", played |-> FALSE, init |-> init]]
  ELSE [w EXCEPT !.overflow = TRUE]

\* faulty variant of playTail (the exception of this.session!.play() escapes);
\* C28_PlayFailures must reject it
playTail_uncaught(w) ==
  IF w.session = 0
  THEN mark(w, "sessionPlayThrew")
  ELSE [sessionPlay(w, w.session) EXCEPT !.gain = w.volume]

\* play(), after the session is there: session.play() and the gain ramp.
\* With this.session null, this.session!.play() throws and the catch runs.
playTail(w) ==
  IF w.session = 0
  THEN stop(dispatchEvent(mark(w, "sessionPlayThrew"), "error", "playback-failed"))
  ELSE [sessionPlay(w, w.session) EXCEPT !.gain = w.volume]

\* play(), up to its first await
play(w) ==
  LET w1 == setPlaybackState(mark(w, "play"), "loading")
  IN  IF w1.session = 0
      THEN IF weightedPrompts(w1) = {}
           THEN stop(dispatchEvent(w1, "error", "no-active-prompt"))
           ELSE connect(dispatchEvent(w1, "info", "connecting"), weightedPrompts(w1))
      ELSE playTail(w1)

\* faulty variant of playPause (keeps retryCount on a user-initiated play);
\* C23_RetryReset must reject it
playPause_keepsRetries(w0) ==
  LET w == mark(w0, "playPause")
  IN  CASE w.playbackState = "playing" -> pause(w)
        [] w.playbackState \in {"paused", "stopped"} -> play(w)
        [] w.playbackState = "loading" -> stop(w)

\* playPause()
playPause(w0) ==
  LET w  == mark(w0, "playPause")
      w1 == IF w.playbackState \in {"paused", "stopped"}
            THEN [w EXCEPT !.retryCount = 0, !.closeRun = 0] ELSE w
  IN  CASE w.playbackState = "playing" -> pause(w1)
        [] w.playbackState \in {"paused", "stopped"} -> play(w1)
        [] w.playbackState = "loading" -> stop(w1)

\* faulty variant of isUnderrun (tolerates a cursor up to bufferTime in the past);
\* C2_Underrun must reject it
isUnderrun_lenient(w) == w.nextStartTime + bufferTime < w.now

\* faulty variant of advanceCursor (re-anchors the cursor on the clock);
\* C1_Contiguous must reject it
advanceCursor_fromClock(w, dur) == w.now + dur

\* the underrun test of processAudioChunks
isUnderrun(w) == w.nextStartTime < w.now

\* this.nextStartTime += audioBuffer.duration
advanceCursor(w, dur) == w.nextStartTime + dur

\* faulty variant of scheduleChunk (sets the look-ahead but arms no buffer-fill timer);
\* C30_BufferFill must reject it
scheduleChunk_unarmed(w, dur) ==
  LET w1 == IF w.nextStartTime = 0
            THEN [w EXCEPT !.nextStartTime = w.now + bufferTime]
            ELSE w
      log(kind) == [kind |-> kind, start |-> w1.nextStartTime, dur |-> dur, n |-> 0]
  IN  IF isUnderrun(w1)
      THEN [resetCursor(setPlaybackState(w1, "loading"))
              EXCEPT !.chunkLog = log("underrun"), !.afterUnderrun = TRUE]
      ELSE [w1 EXCEPT !.chunkLog = log("started"),
                      !.afterUnderrun = FALSE,
                      !.nextStartTime = advanceCursor(w1, dur),
                      !.lastSched = w1.nextStartTime + dur,
                      !.epFirst = IF @ = -1 THEN w.now ELSE @]

\* processAudioChunks after the decode: arm the look-ahead, detect underrun, start the source
scheduleChunk(w, dur) ==
  LET w1 == IF w.nextStartTime = 0
            THEN [w EXCEPT !.nextStartTime = w.now + bufferTime,
                           !.bufTimers = @ \cup {w.now + bufferTime}]
            ELSE w
      log(kind) == [kind |-> kind, start |-> w1.nextStartTime, dur |-> dur, n |-> 0]
  IN  IF isUnderrun(w1)
      THEN [resetCursor(setPlaybackState(w1, "loading"))
              EXCEPT !.chunkLog = log("underrun"), !.afterUnderrun = TRUE]
      ELSE [w1 EXCEPT !.chunkLog = log("started"),
                      !.afterUnderrun = FALSE,
                      !.nextStartTime = advanceCursor(w1, dur),
                      !.lastSched = w1.nextStartTime + dur,
                      !.epFirst = IF @ = -1 THEN w.now ELSE @]

\* faulty variant of setWeightedPromptsBody (no test of the active set);
\* C3_EmptyActive must reject it
setWeightedPromptsBody_unchecked(w0) ==
  LET w == mark(w0, "setWeightedPrompts")
  IN  IF w.session = 0
      THEN w
      ELSE [w EXCEPT !.sent = Append(@, weightedPrompts(w)), !.updPending = @ + 1]

\* the body given to throttle() as setWeightedPrompts, up to its await
setWeightedPromptsBody(w0) ==
  LET w == mark(w0, "setWeightedPrompts")
  IN  IF activePrompts(w) = {}
      THEN pause(dispatchEvent(w, "error", "no-active-prompt"))
      ELSE IF w.session = 0
           THEN w
           ELSE [w EXCEPT !.sent = Append(@, weightedPrompts(w)), !.updPending = @ + 1]

\* faulty variant of setVolume (no range test); C15_VolumeFrame must reject it
setVolume_unranged(w0, level) ==
  LET w1 == [mark(w0, "setVolume") EXCEPT !.volArg = level, !.volume = level]
  IN  IF w1.playbackState \in {"playing", "loading"} THEN [w1 EXCEPT !.gain = level] ELSE w1

\* setVolume(level)
setVolume(w0, level) ==
  LET w == [mark(w0, "setVolume") EXCEPT !.volArg = level]
  IN  IF level < 0 \/ level > FullVolume
      THEN w
      ELSE LET w1 == [w EXCEPT !.volume = level]
           IN  IF w1.playbackState \in {"playing", "loading"}
               THEN [w1 EXCEPT !.gain = w1.volume]
               ELSE w1

\* faulty variant of onerror (counts a retry whatever the playback state);
\* C27_OneRetryPerFailure must reject it
onerror_unguarded(w) ==
  LET w1 == stop(mark(w, "onerror"))
  IN  IF w1.retryCount < maxRetries
      THEN dispatchEvent([w1 EXCEPT !.retryCount = @ + 1], "error", "error-retrying")
      ELSE [dispatchEvent(w1, "error", "error-giving-up") EXCEPT !.retryCount = 0]

\* onerror callback of connect()
onerror(w) ==
  LET was == w.playbackState \in {"playing", "loading"}
      w1 == stop(mark(w, "onerror"))
  IN  IF ~was THEN w1
      ELSE IF w1.retryCount < maxRetries
           THEN dispatchEvent([w1 EXCEPT !.retryCount = @ + 1], "error", "error-retrying")
           ELSE [dispatchEvent(w1, "error", "error-giving-up") EXCEPT !.retryCount = 0]

\* faulty variant of backoff (linear in the attempt number); C26_Backoff must reject it
backoff_linear(k) == retryDelay * k

\* delay of the reconnect armed with retryCount = k
backoff(k) == retryDelay * 2 ^ (k - 1)

\* onclose callback of connect()
onclose(w) ==
  LET was == w.playbackState \in {"playing", "loading"}
      w0 == stop(mark(w, "onclose"))
      w1 == [w0 EXCEPT !.closeRun = IF ~was THEN @ ELSE IF @ < maxRetries THEN @ + 1 ELSE 0]
  IN  IF ~was THEN w1
      ELSE IF w1.retryCount < maxRetries
           THEN LET w2 == dispatchEvent([w1 EXCEPT !.retryCount = @ + 1],
                                        "error", "close-retrying")
                IN  [w2 EXCEPT !.reconnTimers = Append(@, backoff(w2.retryCount))]
           ELSE [dispatchEvent(w1, "error", "close-giving-up") EXCEPT !.retryCount = 0]

\* a closed session with no play() suspended on it leaves the model
release(w, s) ==
  IF w.sess[s].status = "free" /\ w.sess[s].pc = "none"
  THEN [w EXCEPT !.sess[s] = FreeSession] ELSE w

(***************************************************************************)
(* main(): the listeners that wire the component to the helper.            *)
(***************************************************************************)
\* throttle(body, 200): a call runs the body now (pass) or is held back and runs later
throttle(w, pass) ==
  IF pass THEN setWeightedPromptsBody(w) ELSE [w EXCEPT !.throttled = TRUE]

\* 'prompts-changed' listener: liveMusicHelper.setWeightedPrompts(prompts)
onPromptsChanged(w, pass) == throttle(w, pass)

\* addFilteredPrompt(text), called by the 'filtered-prompt' listener
addFilteredPrompt(w, text) == [w EXCEPT !.djFiltered = @ \cup {text}]

(***************************************************************************)
(* PromptDjMidi: the Auto DJ.                                              *)
(***************************************************************************)
PrimaryModel == "gemini-2.0-flash-lite"
\* the fallback chain as declared (type of currentModel; modelFallbackSequence)
ModelFallbackChain ==
  <<"gemini-2.0-flash-lite", "gemma-3-27b-it", "gemma-3-12b-it", "gemma-3-4b-it">>

UnknownText == 0                   \* a genre name that is the text of no prompt
Entry(g) == [has |-> TRUE, genres |-> g]
MissingEntry == [has |-> FALSE, genres |-> {}]      \* a setlist entry without a genres field
Entries == {Entry({Text(1), Text(2)}), Entry({UnknownText}), MissingEntry}
MaxPlaylist == 2
Setlists == UNION {[1..n -> Entries] : n \in 0..MaxPlaylist}
\* what generateContent resolves with: response.text parsed
Responses == [kind : {"unparsable", "nosetlist", "nonarray"}, setlist : {<<>>}]
             \cup [kind : {"list"}, setlist : Setlists]

availablePrompts(w) == {p \in PromptIds : Text(p) \notin w.djFiltered}

\* the selections changeGenresRandomly can draw: 2 or 3 of the available prompts
RandomChoices(w) ==
  LET n == Cardinality(availablePrompts(w))
      Min(a, b) == IF a < b THEN a ELSE b
  IN  {sel \in SUBSET availablePrompts(w) : Cardinality(sel) \in {Min(2, n), Min(3, n)}}

\* stopAutoDj()
stopAutoDj(w) ==
  [mark(w, "stopAutoDj") EXCEPT !.autoDjIntervalId = FALSE, !.isAutoDjActive = FALSE, !.isAutoDjLoading = FALSE,
            !.autoDjPlaylist = <<>>, !.autoDjCurrentIndex = -1, !.currentModel = PrimaryModel]

\* changeGenresRandomly(); sel is the outcome of the shuffle
changeGenresRandomly(w0, sel, pass) ==
  LET w == mark(w0, "changeGenresRandomly")
  IN
  IF availablePrompts(w) = {}
  THEN w
  ELSE onPromptsChanged(
         djDispatchEvent([w EXCEPT !.prompts = [p \in PromptIds |-> IF p \in sel THEN 1 ELSE 0]],
                         "prompts-changed", "random"),
         pass)

\* applyCurrentAutoDjTransition(); newPrompts.forEach(p => p.weight = 0) writes the shared
\* Prompt objects, before this.prompts is replaced
applyCurrentAutoDjTransition(w, sel, pass) ==
  LET i == w.autoDjCurrentIndex + 1
      has == i \in 1..Len(w.autoDjPlaylist) /\ w.autoDjPlaylist[i].has
      zeroed == [w EXCEPT !.prompts = [p \in PromptIds |-> 0]]
      named == {p \in PromptIds : Text(p) \in w.autoDjPlaylist[i].genres}
  IN  IF ~has THEN w
      ELSE IF named = {}
           THEN changeGenresRandomly(mark(zeroed, "applyCurrentAutoDjTransition"), sel, pass)
           ELSE onPromptsChanged(
                  djDispatchEvent(
                    [mark(w, "applyCurrentAutoDjTransition")
                       EXCEPT !.prompts = [p \in PromptIds |-> IF p \in named THEN 1 ELSE 0]],
                    "prompts-changed", "planned"),
                  pass)

\* fetchAutoDjPlaylist(), up to its await
fetchAutoDjPlaylist(w) ==
  IF w.isAutoDjLoading THEN w
  ELSE IF Cardinality(availablePrompts(w)) < 3
       THEN [stopAutoDj(djDispatchEvent(w, "error", "not-enough-genres"))
               EXCEPT !.isAutoDjLoading = FALSE]
       ELSE [mark(w, "generateContent")
                 EXCEPT !.isAutoDjLoading = TRUE,
                      !.fetches = Append(@, w.currentModel),
                      !.attempted = @ \cup {w.currentModel}]

\* message.includes('RESOURCE_EXHAUSTED') || message.includes('429')
FailureKinds == {"rate-limit", "other"}

\* the catch block of fetchAutoDjPlaylist()
fetchCatch(w0, kind, sel, pass) ==
  LET w == mark(w0, "fetchCatch")
  IN
  IF kind = "rate-limit"
  THEN IF w.currentModel = "gemini-2.0-flash-lite"
       THEN fetchAutoDjPlaylist(
              [djDispatchEvent([w EXCEPT !.currentModel = "gemma-3-12b-it"], "error", "primary-busy")
                 EXCEPT !.isAutoDjLoading = FALSE])
       ELSE IF w.currentModel = "gemma-3-12b-it"
       THEN fetchAutoDjPlaylist(
              [djDispatchEvent([w EXCEPT !.currentModel = "gemma-3-4b-it"], "error", "alternate-busy")
                 EXCEPT !.isAutoDjLoading = FALSE])
       ELSE LET w1 == djDispatchEvent([w EXCEPT !.rateLimitCooldownActive = TRUE],
                                      "error", "all-busy")
                w2 == [w1 EXCEPT !.rateLimitTimeoutId = TRUE]
            IN  [changeGenresRandomly(w2, sel, pass) EXCEPT !.isAutoDjLoading = FALSE]
  ELSE [changeGenresRandomly(djDispatchEvent(w, "error", "ai-error"), sel, pass)
          EXCEPT !.isAutoDjLoading = FALSE]

\* the shape test on the parsed response
validSetlist(r) ==
  /\ r.kind = "list"
  /\ Len(r.setlist) # 0
  /\ r.setlist[1].has

\* fetchAutoDjPlaylist() resumed with the response of generateContent
fetchResolved(w0, r, sel, pass) ==
  LET w == mark(w0, "fetchResolved")
  IN
  IF ~w.isAutoDjActive
  THEN [w EXCEPT !.isAutoDjLoading = FALSE]
  ELSE IF ~validSetlist(r)
       THEN fetchCatch(w, "other", sel, pass)
       ELSE LET w1 == [w EXCEPT !.autoDjPlaylist = r.setlist, !.autoDjCurrentIndex = 0]
                w2 == applyCurrentAutoDjTransition(w1, sel, pass)
            IN  [w2 EXCEPT !.currentModel = PrimaryModel, !.isAutoDjLoading = FALSE, !.attempted = {}]

\* advanceAutoDj().  The index saturates at MaxPlaylist: every index >= the playlist
\* length takes the same branch.
advanceAutoDj(w0, sel, pass) ==
  LET w == mark(w0, "advanceAutoDj")
  IN
  IF w.rateLimitCooldownActive
  THEN changeGenresRandomly(w, sel, pass)
  ELSE LET w1 == [w EXCEPT !.autoDjCurrentIndex = IF @ < MaxPlaylist THEN @ + 1 ELSE @]
       IN  IF w1.autoDjCurrentIndex >= Len(w1.autoDjPlaylist)
           THEN fetchAutoDjPlaylist(w1)
           ELSE applyCurrentAutoDjTransition(w1, sel, pass)

\* startAutoDj()
startAutoDj(w) ==
  LET w1 == [w EXCEPT !.isAutoDjActive = TRUE, !.rateLimitCooldownActive = FALSE,
                      !.currentModel = PrimaryModel, !.rateLimitTimeoutId = FALSE,
                      !.attempted = {}]
  IN  [fetchAutoDjPlaylist(w1) EXCEPT !.autoDjIntervalId = TRUE]

\* handleAutoDjClick()
handleAutoDjClick(w) == IF w.isAutoDjActive THEN stopAutoDj(w) ELSE startAutoDj(w)

\* the callback of the cooldown timer
cooldownExpired(w) ==
  LET w1 == [w EXCEPT !.rateLimitCooldownActive = FALSE, !.currentModel = PrimaryModel,
                      !.rateLimitTimeoutId = FALSE]
  IN  IF w1.isAutoDjActive THEN djDispatchEvent(w1, "error", "back-online") ELSE w1

\* handleGenreClick(e)
handleGenreClick(w0, p, pass) ==
  LET w == mark(w0, "handleGenreClick")
      w1 == IF w.isAutoDjActive THEN stopAutoDj(w) ELSE w
      toggled == [w1.prompts EXCEPT ![p] = IF @ > 0 THEN 0 ELSE 1]
      kept == IF \A q \in PromptIds : ~(toggled[q] > 0)
              THEN [toggled EXCEPT ![p] = 1] ELSE toggled
  IN  onPromptsChanged(djDispatchEvent([w1 EXCEPT !.prompts = kept], "prompts-changed", "click"),
                       pass)

\* updated(changedProperties) with 'playbackState' among the changed properties
updated(w) ==
  LET w1 == [w EXCEPT !.djChanged = FALSE]
  IN  IF w1.djPlaybackState # "playing" /\ w1.isAutoDjActive THEN stopAutoDj(w1) ELSE w1

(***************************************************************************)
(* Actions.  Each is one handler (or one continuation of an async          *)
(* function) run to completion on the event loop.                          *)
(***************************************************************************)
InBounds(w) ==
  /\ ~w.overflow
  /\ Len(w.decodeQ) <= MaxPending
  /\ Len(w.reconnTimers) <= MaxTimers
  /\ Len(w.fetches) <= MaxPending
  /\ w.updPending <= MaxPending
  /\ w.nextStartTime <= MaxStart

Do(w) == InBounds(w) /\ Commit(w)

RemoveAt(q, i) == [j \in 1..(Len(q) - 1) |-> IF j < i THEN q[j] ELSE q[j + 1]]

\* the user clicks play/pause: 'play-pause' listener of main() -> playPause()
PlayPause == Do(playPause(W))

\* play() resumed: the connect handshake completed; the initial prompts are sent
ConnectResolved(s) ==
  /\ sess[s].pc = "connect"
  /\ Do([W EXCEPT !.sess[s].status = "open", !.sess[s].pc = "initPrompts",
                  !.sess[s].init = {},
                  !.session = s, !.sent = Append(@, sess[s].init)])

\* play() resumed: the handshake was rejected; the outer catch runs
ConnectRejected(s) ==
  /\ sess[s].pc = "connect"
  /\ Do(stop(dispatchEvent([mark(W, "connectRejected") EXCEPT !.sess[s] = FreeSession],
                           "error", "playback-failed")))

\* play() resumed: the initial setWeightedPrompts resolved
InitPromptsResolved(s) ==
  /\ sess[s].pc = "initPrompts"
  /\ Do(playTail(release([W EXCEPT !.sess[s].pc = "none"], s)))

\* play() resumed: the initial setWeightedPrompts rejected; the inner catch runs
InitPromptsRejected(s) ==
  /\ sess[s].pc = "initPrompts"
  /\ Do(stop(dispatchEvent(release([mark(W, "initPromptsRejected") EXCEPT !.sess[s].pc = "none"], s),
                           "error", "initial-prompts-failed")))

Delivering(s) == sess[s].status \in {"open", "stopped"}

\* history: the callback being delivered belongs to a session other than this.session
from(w, s) == IF w.session # s THEN mark(w, "staleCallback") ELSE w

\* onmessage with setupComplete
OnSetupComplete(s) ==
  /\ sess[s].status = "open"
  /\ Do(dispatchEvent([mark(W, "setupComplete") EXCEPT !.retryCount = 0, !.closeRun = 0],
                       "info", "connection-successful"))

\* onmessage with filteredPrompt
OnFilteredPrompt(s, text) ==
  /\ Delivering(s)
  /\ text \notin filteredPrompts
  /\ Do(addFilteredPrompt(
          dispatchEvent([W EXCEPT !.filteredPrompts = @ \cup {text}], "filtered-prompt", text),
          text))

\* onmessage with audioChunks: processAudioChunks up to await decodeAudioData.
\* Only audioChunks[0] is decoded.
OnAudioChunks(s, chunks) ==
  /\ Delivering(s) /\ sess[s].played
  /\ IF playbackState \in {"paused", "stopped"}
     THEN Do([W EXCEPT !.chunkLog = [NoChunk EXCEPT !.kind = "dropped"]])
     ELSE Do([W EXCEPT !.decodeQ = Append(@, Head(chunks)),
                       !.chunkLog = [NoChunk EXCEPT !.kind = "received", !.n = Len(chunks)]])

\* processAudioChunks resumed with the decoded buffer
DecodeDone ==
  /\ decodeQ # <<>>
  /\ Do(scheduleChunk([W EXCEPT !.decodeQ = Tail(@)], Head(decodeQ)))

\* the timer armed by processAudioChunks fires
BufferTimerFire(d) ==
  /\ d \in bufTimers /\ d <= now
  /\ LET w == [W EXCEPT !.bufTimers = @ \ {d}]
     IN  Do(IF w.playbackState = "loading" THEN setPlaybackState(w, "playing") ELSE w)

\* the clock advances by one unit; a timer fires within the unit in which it falls due
Tick ==
  /\ now < MaxTime
  /\ \A d \in bufTimers : d > now
  /\ Do([W EXCEPT !.now = @ + 1])

\* the socket of session s reports an error
OnError(s) == Delivering(s) /\ Do(onerror(from(W, s)))

\* the socket of session s closes
OnClose(s) ==
  /\ Delivering(s)
  /\ LET w == onclose(from(W, s)) IN Do(release([w EXCEPT !.sess[s].status = "free"], s))

\* the connection of session s fails: the socket fires its error and its close event one
\* after the other, so onerror and onclose run back to back, in either order
OnFailure(s, errorFirst) ==
  /\ Delivering(s)
  /\ IF errorFirst
     THEN LET w == onclose(onerror(from(W, s)))
          IN  Do(release([w EXCEPT !.sess[s].status = "free"], s))
     ELSE LET w == onclose(from(W, s))
          IN  Do(onerror(release([w EXCEPT !.sess[s].status = "free"], s)))

\* a reconnect timer armed by onclose fires: () => this.play()
ReconnectTimerFire(i) ==
  /\ i \in 1..Len(reconnTimers)
  /\ Do(play([W EXCEPT !.reconnTimers = RemoveAt(@, i)]))

\* the awaited session.setWeightedPrompts of the throttled body resolves
UpdateResolved == updPending > 0 /\ Do([W EXCEPT !.updPending = @ - 1])

\* ... or rejects: the catch of the body runs
UpdateRejected ==
  /\ updPending > 0
  /\ Do(pause(dispatchEvent([mark(W, "updateRejected") EXCEPT !.updPending = @ - 1],
                            "error", "update-failed")))

\* a call held back by throttle runs the body
ThrottleRun == throttled /\ Do(setWeightedPromptsBody([W EXCEPT !.throttled = FALSE]))

\* the user moves the volume control: 'volume-changed' listener of main() -> setVolume
SetVolume(level) == Do(setVolume(W, level))

\* the user clicks a genre button
GenreClick(p, pass) == Do(handleGenreClick(W, p, pass))

\* Lit runs updated() after playbackState was set
LitUpdated == djChanged /\ Do(updated(W))

\* the user clicks the Auto DJ button (disabled unless playing or active)
AutoDjClick ==
  /\ djPlaybackState = "playing" \/ isAutoDjActive
  /\ Do(handleAutoDjClick(W))

\* the same click, with room for a second planning request beside one still pending
MaxFetches == 2
AutoDjClickOverlapping ==
  /\ djPlaybackState = "playing" \/ isAutoDjActive
  /\ LET w == handleAutoDjClick(W)
     IN  /\ InBounds([w EXCEPT !.fetches = <<>>])
         /\ Len(w.fetches) <= MaxFetches
         /\ Commit(w)

\* the cadence interval fires
AutoDjTick(sel, pass) == autoDjIntervalId /\ Do(advanceAutoDj(W, sel, pass))

\* a planning request resolves with response r
FetchResolved(i, r, sel, pass) ==
  /\ i \in 1..Len(fetches)
  /\ Do(fetchResolved([W EXCEPT !.fetches = RemoveAt(@, i)], r, sel, pass))

\* a planning request fails
FetchFailed(i, kind, sel, pass) ==
  /\ i \in 1..Len(fetches)
  /\ Do(fetchCatch([W EXCEPT !.fetches = RemoveAt(@, i)], kind, sel, pass))

\* the cooldown timer fires
CooldownExpire == rateLimitTimeoutId /\ Do(cooldownExpired(W))

(***************************************************************************)
(* Specifications.                                                         *)
(***************************************************************************)
InitDjIdle ==
  /\ isAutoDjActive = FALSE /\ isAutoDjLoading = FALSE /\ rateLimitCooldownActive = FALSE
  /\ autoDjPlaylist = <<>> /\ autoDjCurrentIndex = -1 /\ currentModel = PrimaryModel
  /\ autoDjIntervalId = FALSE /\ rateLimitTimeoutId = FALSE
  /\ djFiltered = {} /\ djChanged = FALSE /\ fetches = <<>> /\ attempted = {}

\* the state after main(): the default preset has one active genre
Init ==
  /\ session = 0 /\ retryCount = 0 /\ filteredPrompts = {} /\ nextStartTime = 0
  /\ playbackState = "stopped"
  /\ prompts = [p \in PromptIds |-> IF p = 1 THEN 1 ELSE 0]
  /\ volume = FullVolume /\ gain = 0 /\ volArg = NoLevel
  /\ sess = [s \in Sids |-> FreeSession]
  /\ decodeQ = <<>> /\ bufTimers = {} /\ reconnTimers = <<>> /\ updPending = 0
  /\ throttled = FALSE /\ now = 0
  /\ events = <<>> /\ sent = <<>> /\ chunkLog = NoChunk /\ lastSched = -1 /\ epFirst = -1
  /\ ran = {} /\ closeRun = 0 /\ afterUnderrun = FALSE
  /\ djPlaybackState = "stopped"
  /\ InitDjIdle

HelperNext ==
  \/ PlayPause
  \/ \E s \in Sids : ConnectResolved(s)
  \/ \E s \in Sids : ConnectRejected(s)
  \/ \E s \in Sids : InitPromptsResolved(s)
  \/ \E s \in Sids : InitPromptsRejected(s)
  \/ \E s \in Sids : OnSetupComplete(s)
  \/ \E s \in Sids, t \in Texts : OnFilteredPrompt(s, t)
  \/ \E s \in Sids, c \in ChunkLists : OnAudioChunks(s, c)
  \/ DecodeDone
  \/ \E d \in bufTimers : BufferTimerFire(d)
  \/ Tick
  \/ \E s \in Sids : OnError(s)
  \/ \E s \in Sids : OnClose(s)
  \/ \E i \in 1..MaxTimers : ReconnectTimerFire(i)
  \/ UpdateResolved
  \/ UpdateRejected
  \/ ThrottleRun
  \/ \E p \in PromptIds, pass \in BOOLEAN : GenreClick(p, pass)
  \/ LitUpdated
  \/ \E l \in Levels : SetVolume(l)

DjNext ==
  \/ AutoDjClick
  \/ \E sel \in RandomChoices(W), pass \in BOOLEAN : AutoDjTick(sel, pass)
  \/ \E i \in 1..MaxPending, r \in Responses, sel \in RandomChoices(W), pass \in BOOLEAN :
        FetchResolved(i, r, sel, pass)
  \/ \E i \in 1..MaxPending, k \in FailureKinds, sel \in RandomChoices(W), pass \in BOOLEAN :
        FetchFailed(i, k, sel, pass)
  \/ CooldownExpire

\* the whole program
Next == HelperNext \/ DjNext

Spec == Init /\ [][Next]_vars

\* the playback scheduler: play/pause/stop, chunk arrival, decode, timers, the clock
SchedNext ==
  \/ PlayPause
  \/ \E s \in Sids : ConnectResolved(s)
  \/ \E s \in Sids : InitPromptsResolved(s)
  \/ \E s \in Sids, c \in ChunkLists : OnAudioChunks(s, c)
  \/ DecodeDone
  \/ \E d \in bufTimers : BufferTimerFire(d)
  \/ Tick

SpecSched == Init /\ [][SchedNext]_vars

\* the playback scheduler with its timers and its clock running: a timer that is due
\* fires, and time passes
SpecSchedLive ==
  /\ SpecSched
  /\ WF_vars(\E d \in bufTimers : BufferTimerFire(d))
  /\ WF_vars(Tick)

\* the playback scheduler with the volume control
VolNext ==
  \/ SchedNext
  \/ \E l \in Levels : SetVolume(l)

SpecVol == Init /\ [][VolNext]_vars

\* the connection manager: handshakes, lifecycle callbacks, retries
ConnNext ==
  \/ PlayPause
  \/ \E s \in Sids : ConnectResolved(s)
  \/ \E s \in Sids : ConnectRejected(s)
  \/ \E s \in Sids : InitPromptsResolved(s)
  \/ \E s \in Sids : InitPromptsRejected(s)
  \/ \E s \in Sids : OnSetupComplete(s)
  \/ \E s \in Sids : OnError(s)
  \/ \E s \in Sids : OnClose(s)
  \/ \E i \in 1..MaxTimers : ReconnectTimerFire(i)

SpecConn == Init /\ [][ConnNext]_vars

\* the prompt path: genre clicks, filtered prompts, the throttled update
PromptNext ==
  \/ PlayPause
  \/ \E s \in Sids : ConnectResolved(s)
  \/ \E s \in Sids : InitPromptsResolved(s)
  \/ \E s \in Sids, p \in Touched : OnFilteredPrompt(s, Text(p))
  \/ UpdateResolved
  \/ UpdateRejected
  \/ ThrottleRun
  \/ \E p \in Touched, pass \in BOOLEAN : GenreClick(p, pass)

SpecPrompts == Init /\ [][PromptNext]_vars

\* the Auto DJ, started while music plays.  InitDj is the state SpecSched reaches by
\* play, handshake, initial prompts, one chunk of duration 1 decoded at time 0 and the
\* buffer-fill timer firing at time bufferTime (see PlayingReached).
InitDj ==
  /\ session = 1 /\ retryCount = 0 /\ filteredPrompts = {}
  /\ nextStartTime = bufferTime + 1
  /\ playbackState = "playing"
  /\ prompts = [p \in PromptIds |-> IF p = 1 THEN 1 ELSE 0]
  /\ volume = FullVolume /\ gain = FullVolume /\ volArg = NoLevel
  /\ sess = [s \in Sids |-> IF s = 1 THEN [FreeSession EXCEPT !.status = "open", !.played = TRUE]
                                     ELSE FreeSession]
  /\ decodeQ = <<>> /\ bufTimers = {} /\ reconnTimers = <<>> /\ updPending = 0
  /\ throttled = FALSE /\ now = bufferTime
  /\ events = <<<<"lmh", "playback-state-changed", "playing">>>> /\ sent = <<>>
  /\ chunkLog = NoChunk /\ lastSched = bufferTime + 1 /\ epFirst = 0
  /\ ran = {} /\ closeRun = 0 /\ afterUnderrun = FALSE
  /\ isAutoDjActive = FALSE /\ isAutoDjLoading = FALSE /\ rateLimitCooldownActive = FALSE
  /\ autoDjPlaylist = <<>> /\ autoDjCurrentIndex = -1 /\ currentModel = PrimaryModel
  /\ autoDjIntervalId = FALSE /\ rateLimitTimeoutId = FALSE
  /\ djFiltered = {} /\ djChanged = TRUE /\ fetches = <<>> /\ attempted = {}
  /\ djPlaybackState = "playing"

DjSpecNext ==
  \/ DjNext
  \/ \E s \in Sids, t \in Texts : OnFilteredPrompt(s, t)
  \/ UpdateResolved
  \/ ThrottleRun
  \/ LitUpdated

SpecDj == InitDj /\ [][DjSpecNext]_vars

\* connection failures while the Auto DJ runs with its planner failing
FailNext ==
  \/ AutoDjClick
  \/ \E sel \in RandomChoices(W), pass \in BOOLEAN : AutoDjTick(sel, pass)
  \/ \E i \in 1..MaxPending, k \in FailureKinds, sel \in RandomChoices(W), pass \in BOOLEAN :
        FetchFailed(i, k, sel, pass)
  \/ CooldownExpire
  \/ LitUpdated
  \/ \E s \in Sids, errorFirst \in BOOLEAN : OnFailure(s, errorFirst)
  \/ \E i \in 1..MaxTimers : ReconnectTimerFire(i)
  \/ \E s \in Sids : ConnectResolved(s)

SpecFail == InitDj /\ [][FailNext]_vars

\* Auto DJ stopped and started again while planning requests are pending
OverlapNext ==
  \/ AutoDjClickOverlapping
  \/ \E sel \in RandomChoices(W), pass \in BOOLEAN : AutoDjTick(sel, pass)
  \/ \E i \in 1..MaxFetches, r \in Responses, sel \in RandomChoices(W), pass \in BOOLEAN :
        FetchResolved(i, r, sel, pass)
  \/ \E i \in 1..MaxFetches, k \in FailureKinds, sel \in RandomChoices(W), pass \in BOOLEAN :
        FetchFailed(i, k, sel, pass)
  \/ CooldownExpire
  \/ UpdateResolved
  \/ ThrottleRun

SpecOverlap == InitDj /\ [][OverlapNext]_vars

\* genre clicks while the Auto DJ runs
ClickNext ==
  \/ AutoDjClick
  \/ \E sel \in RandomChoices(W), pass \in BOOLEAN : AutoDjTick(sel, pass)
  \/ \E i \in 1..MaxPending, r \in Responses, sel \in RandomChoices(W), pass \in BOOLEAN :
        FetchResolved(i, r, sel, pass)
  \/ \E p \in PromptIds, pass \in BOOLEAN : GenreClick(p, pass)
  \/ \E s \in Sids, t \in Texts : OnFilteredPrompt(s, t)
  \/ UpdateResolved
  \/ ThrottleRun

SpecClick == InitDj /\ [][ClickNext]_vars

\* play() and the prompt update with every failure of the session calls
PlayFailNext ==
  \/ PlayPause
  \/ \E s \in Sids : ConnectResolved(s)
  \/ \E s \in Sids : ConnectRejected(s)
  \/ \E s \in Sids : InitPromptsResolved(s)
  \/ \E s \in Sids : InitPromptsRejected(s)
  \/ \E p \in Touched, pass \in BOOLEAN : GenreClick(p, pass)
  \/ ThrottleRun
  \/ UpdateResolved
  \/ UpdateRejected

SpecPlayFail == Init /\ [][PlayFailNext]_vars

\* InitDj is a state of the program: SpecSched reaches it
PlayingReached ==
  /\ session = 1 /\ nextStartTime = bufferTime + 1 /\ playbackState = "playing"
  /\ sess[1] = [FreeSession EXCEPT !.status = "open", !.played = TRUE]
  /\ \A s \in Sids \ {1} : sess[s] = FreeSession
  /\ decodeQ = <<>> /\ bufTimers = {} /\ now = bufferTime
  /\ events = <<<<"lmh", "playback-state-changed", "playing">>>>
  /\ lastSched = bufferTime + 1 /\ epFirst = 0 /\ djChanged /\ djPlaybackState = "playing"
  /\ volume = FullVolume /\ gain = FullVolume

(***************************************************************************)
(* Properties.                                                             *)
(***************************************************************************)
\* the cursor a chunk decoded in this state is measured against
Cursor == IF nextStartTime = 0 THEN now + bufferTime ELSE nextStartTime

\* C1: every chunk that processAudioChunks starts is started exactly at the cursor
\* (nextStartTime, or now + bufferTime when the cursor is being armed), the cursor then
\* advances by exactly the chunk's duration, and when an earlier chunk was started with
\* no underrun, pause or stop since, the new chunk starts where that one ends:
\* start_n = start_{n-1} + duration_{n-1}, whatever the clock says at arrival.
C1_Contiguous ==
  [][chunkLog'.kind = "started" =>
       /\ chunkLog'.start = Cursor
       /\ nextStartTime' = chunkLog'.start + chunkLog'.dur
       /\ nextStartTime' > chunkLog'.start
       /\ (lastSched # -1 => chunkLog'.start = lastSched)]_vars

\* a chunk that is not the first of its run was started after the clock had moved on
C1_Witness ==
  /\ chunkLog.kind = "started"
  /\ playbackState \in {"loading", "playing"}
  /\ now > 0
  /\ chunkLog.start # now + bufferTime
  /\ lastSched = chunkLog.start + chunkLog.dur

\* C2: a chunk processed while the cursor is earlier than the clock is not started, the
\* cursor is reset to 0 and the playback state becomes loading; and no chunk is ever
\* started at a time earlier than the clock at the moment it is scheduled.
C2_Underrun ==
  [][chunkLog'.kind \in {"started", "underrun"} =>
       /\ (Cursor < now =>
             chunkLog'.kind = "underrun" /\ nextStartTime' = 0 /\ playbackState' = "loading")
       /\ (chunkLog'.kind = "started" => chunkLog'.start >= now)]_vars

\* an underrun happened
C2_Witness ==
  /\ chunkLog.kind = "underrun"
  /\ chunkLog.start < now
  /\ playbackState = "loading"
  /\ nextStartTime = 0

Range(f) == {f[i] : i \in DOMAIN f}
\* the active subset of the prompt map in the current state
ActiveNow == activePrompts(W)

\* C3: when the throttled setWeightedPrompts body runs and the active subset of the
\* prompt map (weight # 0, text not filtered) is empty, the step emits an 'error' event,
\* pauses (state paused, cursor 0) and passes nothing to session.setWeightedPrompts,
\* with or without a session.
C3_EmptyActive ==
  [][("setWeightedPrompts" \in ran' /\ ActiveNow' = {}) =>
       /\ <<"lmh", "error", "no-active-prompt">> \in Range(events')
       /\ <<"lmh", "playback-state-changed", "paused">> \in Range(events')
       /\ playbackState' = "paused"
       /\ nextStartTime' = 0
       /\ sent' = <<>>
       /\ updPending' = updPending
       /\ session' = session]_vars

\* the body ran with an empty active subset while a session was open
C3_Witness ==
  /\ "setWeightedPrompts" \in ran
  /\ ActiveNow = {}
  /\ session # 0
  /\ sess[session].status = "open"
  /\ playbackState = "paused"

\* ... and while there was no session
C3_WitnessNoSession ==
  /\ "setWeightedPrompts" \in ran
  /\ ActiveNow = {}
  /\ session = 0
  /\ playbackState = "paused"

C6_FullChain ==
  /\ rateLimitCooldownActive => \A i \in DOMAIN ModelFallbackChain : ModelFallbackChain[i] \in attempted
  /\ (<<"pdj", "error", "back-online">> \in Range(events) =>
        ~rateLimitCooldownActive /\ currentModel = ModelFallbackChain[1])

\* C5: counting the closures delivered while playing/loading since the last setupComplete,
\* user-initiated play or terminal closure (closeRun), each closure with fewer than
\* maxRetries counted before it arms a reconnect timer, and the closure after maxRetries
\* counted ones arms none, emits the terminal 'error' event and leaves retryCount = 0.
C5_RetryBudget ==
  [][("onclose" \in ran' /\ playbackState \in {"playing", "loading"}) =>
       IF closeRun < maxRetries
       THEN /\ Len(reconnTimers') = Len(reconnTimers) + 1
            /\ <<"lmh", "error", "close-retrying">> \in Range(events')
       ELSE /\ reconnTimers' = reconnTimers
            /\ <<"lmh", "error", "close-giving-up">> \in Range(events')
            /\ retryCount' = 0]_vars

\* C7: the playback state goes from loading to playing only when bufferTime has elapsed
\* since the first chunk of the current loading episode was scheduled; a buffer-fill
\* timer of an earlier episode has no effect.
C7_BufferFilled ==
  [][(playbackState = "loading" /\ playbackState' = "playing") =>
       (epFirst # -1 /\ now >= epFirst + bufferTime)]_vars

\* C8: whenever the playback state is stopped the helper holds no session and the
\* cursor is 0, also when stop() ran while play() was suspended on the handshake or on
\* the initial setWeightedPrompts.
C8_StoppedHasNoSession ==
  playbackState = "stopped" => (session = 0 /\ nextStartTime = 0)

\* the sessions that are live: connect issued, not yet stopped or closed
LiveSessions == {s \in Sids : sess[s].status \in {"connecting", "open"}}

\* C9: at most one remote session is live at any time.
C9_OneLiveSession == Cardinality(LiveSessions) <= 1

C11_OneReconnectTimer == Len(reconnTimers) <= 1

\* C12: after a user-initiated stop (playPause while loading) no reconnect timer remains
\* pending.
C12_StopClearsTimers ==
  [][("playPause" \in ran' /\ playbackState = "loading") => reconnTimers' = <<>>]_vars

\* C13: play() invoked while the playback state is playing or loading changes neither the
\* playback state, the session, the cursor nor the set of connections, and emits no event.
C13_PlayIdempotent ==
  [][("play" \in ran' /\ playbackState \in {"playing", "loading"}) =>
       /\ playbackState' = playbackState
       /\ session' = session
       /\ nextStartTime' = nextStartTime
       /\ sess' = sess
       /\ events' = <<>>]_vars

\* the edges of the playback state machine
AllowedEdges ==
  {<<"stopped", "loading">>, <<"loading", "playing">>, <<"playing", "paused">>,
   <<"paused", "loading">>, <<"playing", "loading">>}
  \cup {<<st, "stopped">> : st \in {"stopped", "loading", "playing", "paused"}}

\* C14: every change of the playback state follows one of the edges stopped->loading,
\* loading->playing, playing->paused, paused->loading, playing->loading, any->stopped.
C14_Edges ==
  [][playbackState' # playbackState => <<playbackState, playbackState'>> \in AllowedEdges]_vars

\* C15: setVolume(level) changes only the stored volume, and the gain target when the
\* state is playing or loading; a level outside [0,1] changes nothing; playback state,
\* session, cursor, retry count, pending decodes and timers are left alone, so chunks
\* keep being decoded and scheduled at volume 0.
C15_VolumeFrame ==
  [][("setVolume" \in ran') =>
       /\ UNCHANGED <<session, retryCount, filteredPrompts, nextStartTime, playbackState,
                      prompts, sess, decodeQ, bufTimers, reconnTimers, updPending,
                      throttled, now, lastSched, epFirst, afterUnderrun, closeRun, djvars>>
       /\ events' = <<>> /\ sent' = <<>> /\ chunkLog' = NoChunk
       /\ IF volArg' \in 0..FullVolume
          THEN /\ volume' = volArg'
               /\ gain' = IF playbackState \in {"playing", "loading"} THEN volArg' ELSE gain
          ELSE volume' = volume /\ gain' = gain]_vars

\* a chunk is started while the volume is 0 and the state is playing
C15_Witness ==
  /\ volume = 0 /\ gain = 0
  /\ playbackState = "playing"
  /\ chunkLog.kind = "started"

\* a call with a level outside the range happened
C15_WitnessOutside == volArg = FullVolume + 1 /\ volume = 0

\* a payload holds only prompts that are active now
FreshPayload(pl) ==
  /\ pl # {}
  /\ \A e \in pl : \E p \in PromptIds :
        Text(p) = e[1] /\ prompts[p] # 0 /\ e[1] \notin filteredPrompts

\* C16: every payload passed to session.setWeightedPrompts (the initial set of play() and
\* every update) is non-empty and holds only prompts whose weight is non-zero and whose
\* text is not filtered at the time of sending; and play() with no active prompt emits an
\* error and ends stopped without a connection being opened.
C16_PayloadActive ==
  /\ \A i \in DOMAIN sent : FreshPayload(sent[i])
  /\ (("play" \in ran /\ ActiveNow = {} /\ session = 0 /\ "onclose" \notin ran) =>
        (playbackState = "stopped" /\ <<"lmh", "error", "no-active-prompt">> \in Range(events)))

\* C17: the prompt set most recently requested is the one the session receives: a
\* payload sent while no later call is held back by the throttle carries exactly the
\* currently requested active set, never an earlier one.
C17_LatestSent ==
  (sent # <<>> /\ ~throttled) => sent[Len(sent)] = weightedPrompts(W)

\* C18: once a playback state other than playing has been reported to the component and
\* the change has been processed (updated() ran), Auto DJ is inactive and its cadence
\* interval is cleared.
C18_InactiveWhenNotPlaying ==
  (djPlaybackState # "playing" /\ ~djChanged) => (~isAutoDjActive /\ ~autoDjIntervalId)

\* C19: a step in which stopAutoDj() ran leaves no cooldown-expiry callback pending, so
\* the cooldown callback of the earlier run cannot fire afterwards.
C19_StopCancelsCooldown == [][("stopAutoDj" \in ran') => ~rateLimitTimeoutId']_vars

\* C20: when a planning request resolves or fails while Auto DJ is not active, its result
\* is discarded: no prompt weight changes, no 'prompts-changed' event is emitted, no
\* further planning request is issued and no cooldown is engaged.
C20_StaleResultDiscarded ==
  [][(("fetchResolved" \in ran' \/ "fetchCatch" \in ran') /\ ~isAutoDjActive) =>
       /\ prompts' = prompts
       /\ \A i \in DOMAIN events' : ~(events'[i][1] = "pdj" /\ events'[i][2] = "prompts-changed")
       /\ Len(fetches') < Len(fetches)
       /\ rateLimitCooldownActive' = rateLimitCooldownActive
       /\ rateLimitTimeoutId' = rateLimitTimeoutId]_vars

\* C21: while the cooldown is engaged and its expiry timer has not fired, no step issues
\* a remote planning request, and a cadence tick applies a local random selection;
\* this for every step, Auto DJ stop and start included.
C21_CooldownSuppresses ==
  [][(rateLimitCooldownActive /\ rateLimitTimeoutId) =>
       /\ "generateContent" \notin ran'
       /\ ("advanceAutoDj" \in ran' => "changeGenresRandomly" \in ran')]_vars

\* the steps of the Auto DJ: a planning result, a planning failure, a cadence tick,
\* the application of a planned or random transition
AutoDjSteps == {"fetchResolved", "fetchCatch", "advanceAutoDj",
                "applyCurrentAutoDjTransition", "changeGenresRandomly"}

\* C22: a step of the Auto DJ taken while the playback state is playing leaves it playing,
\* the forwarding of its 'prompts-changed' event to setWeightedPrompts included.
C22_DjKeepsPlaying ==
  [][(ran' \cap AutoDjSteps # {} /\ playbackState = "playing") => playbackState' = "playing"]_vars

\* C23: retryCount is 0 right after every setupComplete message and right after every
\* playPause() invoked in state paused or stopped, whatever its value before.
C23_RetryReset ==
  [][("setupComplete" \in ran' \/ ("playPause" \in ran' /\ playbackState \in {"paused", "stopped"}))
       => retryCount' = 0]_vars

\* a user-initiated play while a reconnect armed by an earlier closure is still pending
C23_Witness ==
  /\ "playPause" \in ran /\ "play" \in ran
  /\ reconnTimers # <<>>
  /\ retryCount = 0

\* a setupComplete on a session opened by an automatic reconnect
C23_WitnessSetup ==
  /\ "setupComplete" \in ran
  /\ reconnTimers # <<>>
  /\ retryCount = 0

\* C24: the filtered-text set of the helper only grows, no filtered text belongs to an
\* active prompt, and no payload given to session.setWeightedPrompts carries a text that
\* is in the set.
C24_FilteredForGood ==
  [][/\ filteredPrompts \subseteq filteredPrompts'
     /\ \A p \in activePrompts(W)' : Text(p) \notin filteredPrompts'
     /\ \A i \in DOMAIN sent' : \A e \in sent'[i] : e[1] \notin filteredPrompts']_vars

\* C25: an onclose or onerror delivered while the playback state is playing or loading
\* and retryCount < maxRetries tears local playback down (state stopped, session null,
\* cursor 0), increments retryCount by one and arms one reconnect timer.
C25_FailureReconnects ==
  [][(ran' \cap {"onerror", "onclose"} # {} /\ playbackState \in {"playing", "loading"}
        /\ retryCount < maxRetries) =>
       /\ playbackState' = "stopped" /\ session' = 0 /\ nextStartTime' = 0
       /\ retryCount' = retryCount + 1
       /\ Len(reconnTimers') = Len(reconnTimers) + 1]_vars

\* the delays in milliseconds of the reconnects 1..maxRetries
DelayTable == <<1000, 2000, 4000, 8000, 16000>>

\* C26: the reconnect armed by a closure with retryCount = k after the increment is delayed
\* by retryDelay * 2^(k-1) ms, that is 1000, 2000, 4000, 8000, 16000 ms for k = 1..5, and
\* retryCount stays within 0..maxRetries.
C26_Backoff ==
  [][/\ retryCount' \in 0..maxRetries
     /\ ("onclose" \in ran' /\ Len(reconnTimers') > Len(reconnTimers)) =>
          /\ retryCount' = retryCount + 1
          /\ retryCount' \in 1..maxRetries
          /\ reconnTimers'[Len(reconnTimers')] = DelayTable[retryCount']
          /\ DelayTable[retryCount'] = retryDelay * 2 ^ (retryCount' - 1)]_vars

\* the last reconnect of the budget was armed
C26_Witness ==
  /\ "onclose" \in ran
  /\ retryCount = maxRetries
  /\ reconnTimers # <<>>
  /\ reconnTimers[Len(reconnTimers)] = 16000

\* C27: a connection failure that delivers both onerror and onclose, in either order,
\* increments retryCount at most once and arms at most one reconnect; and a step of the
\* Auto DJ (fallback handling included) runs neither play() nor a connection callback
\* and leaves retryCount, the reconnect timers and the sessions as they are.
C27_OneRetryPerFailure ==
  [][/\ ({"onerror", "onclose"} \subseteq ran') =>
          /\ retryCount' \in {retryCount, retryCount + 1, 0}
          /\ Len(reconnTimers') <= Len(reconnTimers) + 1
     /\ (ran' \cap AutoDjSteps # {}) =>
          /\ ran' \cap {"play", "onerror", "onclose"} = {}
          /\ retryCount' = retryCount /\ reconnTimers' = reconnTimers /\ sess' = sess]_vars

\* a failure of a reconnected session, while a planning request is in flight
C27_Witness ==
  /\ {"onerror", "onclose"} \subseteq ran
  /\ retryCount = 2
  /\ fetches # <<>>

\* the 'error' events dispatched by the helper in the last step
ErrorEvents == {i \in DOMAIN events : events[i][1] = "lmh" /\ events[i][2] = "error"}

\* C28: a failure inside play() (the handshake rejects, the initial setWeightedPrompts
\* rejects, session.play() throws) ends the step with state stopped, session null and
\* exactly one 'error' event; a rejected later update ends it with state paused and
\* exactly one 'error' event.
C28_PlayFailures ==
  [][/\ (ran' \cap {"connectRejected", "initPromptsRejected", "sessionPlayThrew"} # {}) =>
          /\ playbackState' = "stopped" /\ session' = 0
          /\ Cardinality(ErrorEvents') = 1
     /\ ("updateRejected" \in ran') =>
          /\ playbackState' = "paused"
          /\ Cardinality(ErrorEvents') = 1]_vars

\* session.play() threw on a null session: play() resumed after the helper was stopped
C28_Witness ==
  /\ "sessionPlayThrew" \in ran
  /\ playbackState = "stopped" /\ session = 0
  /\ <<"lmh", "error", "playback-failed">> \in Range(events)

\* a later update was rejected
C28_WitnessUpdate ==
  /\ "updateRejected" \in ran
  /\ playbackState = "paused"
  /\ <<"lmh", "error", "update-failed">> \in Range(events)

\* C29: a message received while the state is loading or playing has every chunk of its
\* audioChunks list handed to the decoder: the decodes in flight grow by the length of
\* the list.
C29_EveryChunkDecoded ==
  [][chunkLog'.kind = "received" => Len(decodeQ') = Len(decodeQ) + chunkLog'.n]_vars

\* the first chunk of a loading episode was just started and its buffer-fill timer falls
\* due within the horizon of the clock
FirstChunkArmed ==
  /\ playbackState = "loading"
  /\ chunkLog.kind = "started" /\ chunkLog.start = now + bufferTime
  /\ (now + bufferTime) \in bufTimers
  /\ now + bufferTime <= MaxTime

\* the episode ended as playing, or a stop, a pause or an underrun intervened
PlayingOrIntervened ==
  \/ playbackState \in {"playing", "stopped", "paused"}
  \/ chunkLog.kind = "underrun"

\* C30: a chunk processed with nextStartTime = 0 in state loading is started at
\* now + bufferTime and arms a buffer-fill timer due then; unless a stop, a pause or an
\* underrun intervenes, the state then eventually becomes playing; and after an underrun
\* the state does not become playing before a further chunk was started.
C30_BufferFill ==
  /\ [][/\ (chunkLog'.kind = "started" /\ nextStartTime = 0 /\ playbackState = "loading") =>
             /\ chunkLog'.start = now + bufferTime
             /\ (now + bufferTime) \in bufTimers'
        /\ afterUnderrun => playbackState' # "playing"]_vars
  /\ (FirstChunkArmed ~> PlayingOrIntervened)

\* the buffer-fill timer of the first chunk fired and made the state playing
C30_Witness ==
  /\ playbackState = "playing"
  /\ <<"lmh", "playback-state-changed", "playing">> \in Range(events)
  /\ epFirst # -1 /\ now = epFirst + bufferTime

\* a loading state entered by an underrun, waiting for a further chunk
C30_WitnessUnderrun ==
  /\ afterUnderrun /\ playbackState = "loading" /\ chunkLog.kind = "none"
  /\ bufTimers = {}

\* an entry that resolves no genre against the prompt map: no genres field, or no name
\* of it is the text of a prompt
Unresolvable(e) == ~e.has \/ {p \in PromptIds : Text(p) \in e.genres} = {}

\* C31: a cadence tick that comes to apply a playlist entry resolving no genre applies a
\* local random selection and announces it with 'prompts-changed' in the same step, and
\* does not end with an all-zero mix.
C31_UnresolvableFallsBack ==
  [][("advanceAutoDj" \in ran' /\ ~rateLimitCooldownActive
        /\ (autoDjCurrentIndex + 2) \in 1..Len(autoDjPlaylist)
        /\ Unresolvable(autoDjPlaylist[autoDjCurrentIndex + 2])) =>
       /\ <<"pdj", "prompts-changed", "random">> \in Range(events')
       /\ \E p \in PromptIds : prompts'[p] > 0]_vars

\* the prompts with a non-zero weight
NonZero == {p \in PromptIds : prompts[p] # 0}

\* C32: after a step that ran changeGenresRandomly the prompts with non-zero weight are
\* 2 or 3 prompts, each with weight 1 and a text outside the component's filtered set.
C32_RandomMix ==
  [][("changeGenresRandomly" \in ran') =>
       /\ Cardinality(NonZero') \in {2, 3}
       /\ \A p \in NonZero' : prompts'[p] = 1 /\ Text(p) \notin djFiltered']_vars

\* C33: after a step that applied a planned transition the prompts with non-zero weight
\* are exactly the prompts whose text the applied entry names, each with weight 1 and a
\* text outside the component's filtered set.
C33_PlannedMix ==
  [][(<<"pdj", "prompts-changed", "planned">> \in Range(events')) =>
       /\ (autoDjCurrentIndex' + 1) \in 1..Len(autoDjPlaylist')
       /\ NonZero' = {p \in PromptIds : Text(p) \in autoDjPlaylist'[autoDjCurrentIndex' + 1].genres}
       /\ \A p \in NonZero' : prompts'[p] = 1 /\ Text(p) \notin djFiltered']_vars

\* C34: a cadence tick taken while Auto DJ is active and not in cooldown moves to the
\* next index and applies the entry there when the playlist has one, and otherwise
\* issues a planning request or waits on the one in flight; a planning success applies
\* entry 0.
C34_OneEntryPerTick ==
  [][/\ ("advanceAutoDj" \in ran' /\ isAutoDjActive /\ ~rateLimitCooldownActive) =>
          IF autoDjCurrentIndex + 1 < Len(autoDjPlaylist)
          THEN /\ autoDjCurrentIndex' = autoDjCurrentIndex + 1
               /\ "applyCurrentAutoDjTransition" \in ran'
               /\ "generateContent" \notin ran'
          ELSE "generateContent" \in ran' \/ isAutoDjLoading
     /\ ("fetchResolved" \in ran' /\ autoDjPlaylist' # autoDjPlaylist) =>
          /\ autoDjCurrentIndex' = 0
          /\ "applyCurrentAutoDjTransition" \in ran']_vars

\* C35: a planner response replaces the playlist only if it is well-formed: the stored
\* playlist is a non-empty list in which every entry has a genres list.
C35_WellFormedStored ==
  [][("fetchResolved" \in ran' /\ autoDjPlaylist' # autoDjPlaylist) =>
       /\ autoDjPlaylist' # <<>>
       /\ \A i \in DOMAIN autoDjPlaylist' : autoDjPlaylist'[i].has]_vars

\* the position of model m in the fallback chain
ChainPos(m) == CHOOSE i \in DOMAIN ModelFallbackChain : ModelFallbackChain[i] = m

\* the 'error' events the planner dispatches for a rate-limit-class failure
RateLimitEvents == {<<"pdj", "error", "primary-busy">>, <<"pdj", "error", "alternate-busy">>,
                    <<"pdj", "error", "all-busy">>}

\* C36: the planner's model changes only by advancing to the next entry of the fallback
\* chain in a step that handles a rate-limit-class failure, or by returning to the head
\* of the chain; a failure of another class leaves the model unchanged and engages no
\* cooldown; a planning success leaves the model at the head of the chain.
C36_ModelFrame ==
  [][/\ (currentModel' # currentModel) =>
          \/ currentModel' = ModelFallbackChain[1]
          \/ /\ ChainPos(currentModel') = ChainPos(currentModel) + 1
             /\ Range(events') \cap RateLimitEvents # {}
     /\ (<<"pdj", "error", "ai-error">> \in Range(events')) =>
          /\ currentModel' = currentModel
          /\ rateLimitCooldownActive' = rateLimitCooldownActive
          /\ rateLimitTimeoutId' = rateLimitTimeoutId
     /\ ("fetchResolved" \in ran' /\ autoDjPlaylist' # autoDjPlaylist) =>
          currentModel' = ModelFallbackChain[1]]_vars

\* C37: an onclose or onerror delivered by a session that was stopped and is no longer
\* the one the helper holds, while the helper holds a newer session and is loading or
\* playing, changes neither the playback state nor the held session nor retryCount, and
\* arms no reconnect timer.
C37_StaleCallbackIgnored ==
  [][("staleCallback" \in ran' /\ ran' \cap {"onclose", "onerror"} # {}
        /\ session # 0 /\ playbackState \in {"loading", "playing"}
        /\ \A t \in Sids \ {session} : sess[t].status \in {"free", "stopped"}) =>
       /\ playbackState' = playbackState /\ session' = session
       /\ sess'[session] = sess[session]
       /\ retryCount' = retryCount /\ reconnTimers' = reconnTimers]_vars

\* C38: at most one Auto DJ planning request (a generateContent call whose promise is
\* still pending) is in flight at any time, whatever the sequence of start, stop, cadence
\* ticks and request completions, stop followed by start with a request pending included
C38_OneRequestInFlight == Len(fetches) <= 1

\* what a genre click does to the flag and the weights: the Auto DJ flag is off, some
\* prompt has a weight above zero, a click on the only active prompt leaves it active,
\* no other prompt changed its weight, the prompt ids are the same
GenreClickWeights ==
  [][\A p \in PromptIds, pass \in BOOLEAN : GenreClick(p, pass) =>
        /\ ~isAutoDjActive'
        /\ \E q \in PromptIds : prompts'[q] > 0
        /\ ({q \in PromptIds : prompts[q] > 0} = {p} => prompts'[p] > 0)
        /\ \A q \in PromptIds \ {p} : prompts'[q] = prompts[q]
        /\ DOMAIN prompts' = DOMAIN prompts]_vars

\* C39: after a manual genre click the Auto DJ is inactive (flag off and no cadence
\* interval armed), at least one prompt has a weight above zero, a click on the only
\* active prompt leaves it active, no prompt other than the clicked one changed its
\* weight, and the set of prompt ids is the same as before
C39_GenreClick ==
  [][\A p \in PromptIds, pass \in BOOLEAN : GenreClick(p, pass) =>
        /\ ~isAutoDjActive' /\ ~autoDjIntervalId'
        /\ \E q \in PromptIds : prompts'[q] > 0
        /\ ({q \in PromptIds : prompts[q] > 0} = {p} => prompts'[p] > 0)
        /\ \A q \in PromptIds \ {p} : prompts'[q] = prompts[q]
        /\ DOMAIN prompts' = DOMAIN prompts]_vars

====
